---- MODULE Spec2Model ----
(***************************************************************************)
(* The block pool of dnsmasq (src/dnsmasq/blockdata.c): a free list of     *)
(* fixed-size blocks, chains of blocks holding variable-length blobs, and  *)
(* the operations blockdata_init, _alloc, _read, _expand, _free,           *)
(* _retrieve and _write.  The program is single-threaded and no operation  *)
(* yields, so every operation is one atomic action.                        *)
(***************************************************************************)
EXTENDS Integers, Sequences, FiniteSets, TLC

(* ------------------------------ bounds -------------------------------- *)

\* Bytes per block (the key[] array of struct blockdata), scaled down.
KEYBLOCK_LEN == 2

\* Longest logical length of a chain the callers build.
MaxLen == 5

\* Number of chain handles the callers hold at once.
MaxChains == 2

\* Largest daemon->cachesize tried by blockdata_init.
MaxCache == 2

\* Capacity of the byte stream between blockdata_write and blockdata_read.
MaxStream == 4

\* Number of operations in a run.
MaxOps == 4

\* Blocks new_block asks add_blocks for when the free list is empty (the
\* program asks for 50), scaled down so that the free list runs dry again.
GrowBatch == 2

\* The most blocks the bulk-memory source supplies before it refuses.
MaxBlocks == 4

(* --------------------------- program constants ------------------------ *)

NULL == 0

\* Byte values; Indet is the content of storage never written.
Byte == {1, 2}
Indet == 0

\* The data argument of blockdata_alloc_real: a buffer, or the null pointer
\* (read from the descriptor instead).
DataPtr(s) == [isnull |-> FALSE, buf |-> s]
NullData == [isnull |-> TRUE, buf |-> <<>>]

VARIABLES
    keyblock_free,      \* head of the free list, or NULL
    blockdata_count,    \* blocks in use
    blockdata_hwm,      \* high water mark of blockdata_count
    blockdata_alloced,  \* blocks obtained from whine_malloc
    next,               \* next[b]: the link field of block b
    key,                \* key[b]: the KEYBLOCK_LEN bytes of block b
    chains,             \* the callers' handles: head, logical length, bytes stored
    stream,             \* bytes written to the descriptor and not yet read
    buff,               \* blockdata_retrieve's static buffer (capacity, or NULL)
    buff_len,           \* blockdata_retrieve's static buff_len
    last,               \* the operation just performed, its arguments and result
    nops,               \* operations performed so far
    peak                \* the largest value blockdata_count has held

vars == <<keyblock_free, blockdata_count, blockdata_hwm, blockdata_alloced,
          next, key, chains, stream, buff, buff_len, last, nops, peak>>

(* ------------------------------ the heap ------------------------------ *)

\* The pool's state as one value, threaded through the operations.  With it
\* go three observations of the run: peak, and for the operation under way
\* calls, the number of whine_malloc calls, and stray, those of them made
\* while the free list held a block.
Pool == [free |-> keyblock_free, count |-> blockdata_count, hwm |-> blockdata_hwm,
         alloced |-> blockdata_alloced, next |-> next, key |-> key,
         peak |-> peak, calls |-> 0, stray |-> 0]

\* whine_malloc(n * sizeof(struct blockdata)): the source may refuse (ok is
\* its answer) and refuses once MaxBlocks blocks are out.
whine_malloc(p, n, ok) == ok /\ Len(p.next) + n <= MaxBlocks

FreshKey == [i \in 1..KEYBLOCK_LEN |-> Indet]

\* add_blocks adding n to blockdata_alloced whether or not whine_malloc
\* delivered.
add_blocks_credit(p, n, ok) ==
    LET q == [p EXCEPT !.calls = @ + 1,
                       !.stray = IF p.free # NULL THEN @ + 1 ELSE @,
                       !.alloced = p.alloced + n]
    IN
    IF whine_malloc(p, n, ok)
    THEN LET base == Len(p.next) IN
         [q EXCEPT !.next = [b \in 1..(base + n) |->
                                IF b <= base THEN p.next[b]
                                ELSE IF b = base + n THEN p.free
                                ELSE b + 1],
                   !.key = [b \in 1..(base + n) |->
                                IF b <= base THEN p.key[b] ELSE FreshKey],
                   !.free = base + 1]
    ELSE q

\* add_blocks(n): blocks Len(next)+1 .. Len(next)+n are new[0] .. new[n-1].
add_blocks(p, n, ok) ==
    LET q == [p EXCEPT !.calls = @ + 1,
                       !.stray = IF p.free # NULL THEN @ + 1 ELSE @]
    IN
    IF whine_malloc(p, n, ok)
    THEN LET base == Len(p.next) IN
         [q EXCEPT !.next = [b \in 1..(base + n) |->
                                IF b <= base THEN p.next[b]
                                ELSE IF b = base + n THEN p.free
                                ELSE b + 1],
                   !.key = [b \in 1..(base + n) |->
                                IF b <= base THEN p.key[b] ELSE FreshKey],
                   !.free = base + 1,
                   !.alloced = p.alloced + n]
    ELSE q

\* blockdata_init: counters reset, then add_blocks(daemon->cachesize) when
\* OPT_DNSSEC_VALID is set.
blockdata_init(dnssec, cachesize, ok) ==
    LET p0 == [free |-> NULL, count |-> 0, hwm |-> 0, alloced |-> 0,
               next |-> <<>>, key |-> <<>>, peak |-> 0, calls |-> 0, stray |-> 0]
    IN IF dnssec THEN add_blocks(p0, cachesize, ok) ELSE p0

\* new_block with blockdata_count++ moved before the test of the free list.
new_block_countfirst(p, ok) ==
    LET p1 == IF p.free = NULL THEN add_blocks(p, GrowBatch, ok) ELSE p
        cnt == p1.count + 1
    IN IF p1.free # NULL
       THEN LET block == p1.free IN
            [pool |-> [p1 EXCEPT !.free = p1.next[block],
                                 !.count = cnt,
                                 !.hwm = IF p1.hwm < cnt THEN cnt ELSE p1.hwm,
                                 !.next[block] = NULL],
             block |-> block]
       ELSE [pool |-> [p1 EXCEPT !.count = cnt], block |-> NULL]

\* new_block growing the pool as soon as one block is left on the free list.
new_block_eager(p, ok) ==
    LET p1 == IF p.free = NULL \/ p.next[p.free] = NULL
              THEN add_blocks(p, GrowBatch, ok) ELSE p
    IN IF p1.free # NULL
       THEN LET block == p1.free
                cnt == p1.count + 1
            IN [pool |-> [p1 EXCEPT !.free = p1.next[block],
                                    !.count = cnt,
                                    !.hwm = IF p1.hwm < cnt THEN cnt ELSE p1.hwm,
                                    !.next[block] = NULL,
                                    !.peak = IF @ < cnt THEN cnt ELSE @],
                block |-> block]
       ELSE [pool |-> p1, block |-> NULL]

\* new_block comparing blockdata_hwm with the count before the increment.
new_block_hwmlate(p, ok) ==
    LET p1 == IF p.free = NULL THEN add_blocks(p, GrowBatch, ok) ELSE p
    IN IF p1.free # NULL
       THEN LET block == p1.free
                cnt == p1.count + 1
            IN [pool |-> [p1 EXCEPT !.free = p1.next[block],
                                    !.count = cnt,
                                    !.hwm = IF p1.hwm < p1.count THEN p1.count
                                            ELSE p1.hwm,
                                    !.next[block] = NULL,
                                    !.peak = IF @ < cnt THEN cnt ELSE @],
                block |-> block]
       ELSE [pool |-> p1, block |-> NULL]

\* new_block without block->next = NULL.
new_block_nonull(p, ok) ==
    LET p1 == IF p.free = NULL THEN add_blocks(p, GrowBatch, ok) ELSE p
    IN IF p1.free # NULL
       THEN LET block == p1.free
                cnt == p1.count + 1
            IN [pool |-> [p1 EXCEPT !.free = p1.next[block],
                                    !.count = cnt,
                                    !.hwm = IF p1.hwm < cnt THEN cnt ELSE p1.hwm,
                                    !.peak = IF @ < cnt THEN cnt ELSE @],
                block |-> block]
       ELSE [pool |-> p1, block |-> NULL]

\* new_block: [pool, block]; block = NULL when the free list is empty and
\* add_blocks(50) did not fill it.
new_block(p, ok) ==
    LET p1 == IF p.free = NULL THEN add_blocks(p, GrowBatch, ok) ELSE p IN
    IF p1.free # NULL
    THEN LET block == p1.free
             cnt == p1.count + 1
         IN [pool |-> [p1 EXCEPT !.free = p1.next[block],
                                 !.count = cnt,
                                 !.hwm = IF p1.hwm < cnt THEN cnt ELSE p1.hwm,
                                 !.next[block] = NULL,
                                 !.peak = IF @ < cnt THEN cnt ELSE @],
             block |-> block]
    ELSE [pool |-> p1, block |-> NULL]

\* The loop of blockdata_free: from tmp, follow next to the block whose link
\* is NULL, counting the blocks passed (one blockdata_count-- each).
RECURSIVE FreeWalk(_, _, _)
FreeWalk(nx, tmp, n) ==
    IF nx[tmp] # NULL THEN FreeWalk(nx, nx[tmp], n + 1)
    ELSE [tmp |-> tmp, n |-> n]

\* blockdata_free without the blockdata_count-- after the loop.
blockdata_free_skip(p, blocks) ==
    IF blocks # NULL
    THEN LET w == FreeWalk(p.next, blocks, 0) IN
         [p EXCEPT !.next[w.tmp] = p.free,
                   !.free = blocks,
                   !.count = p.count - w.n]
    ELSE p

\* blockdata_free without the blockdata_count-- inside the loop.
blockdata_free_once(p, blocks) ==
    IF blocks # NULL
    THEN LET w == FreeWalk(p.next, blocks, 0) IN
         [p EXCEPT !.next[w.tmp] = p.free,
                   !.free = blocks,
                   !.count = p.count - 1]
    ELSE p

\* blockdata_free with keyblock_free = tmp in place of keyblock_free = blocks.
blockdata_free_tail(p, blocks) ==
    IF blocks # NULL
    THEN LET w == FreeWalk(p.next, blocks, 0) IN
         [p EXCEPT !.next[w.tmp] = p.free,
                   !.free = w.tmp,
                   !.count = p.count - w.n - 1]
    ELSE p

\* blockdata_free without tmp->next = keyblock_free.
blockdata_free_nosplice(p, blocks) ==
    IF blocks # NULL
    THEN LET w == FreeWalk(p.next, blocks, 0) IN
         [p EXCEPT !.free = blocks,
                   !.count = p.count - w.n - 1]
    ELSE p

\* blockdata_free with tmp->next = blocks in place of tmp->next = keyblock_free.
blockdata_free_loop(p, blocks) ==
    IF blocks # NULL
    THEN LET w == FreeWalk(p.next, blocks, 0) IN
         [p EXCEPT !.next[w.tmp] = blocks,
                   !.free = blocks,
                   !.count = p.count - w.n - 1]
    ELSE p

\* blockdata_free(blocks).
blockdata_free(p, blocks) ==
    IF blocks # NULL
    THEN LET w == FreeWalk(p.next, blocks, 0) IN
         [p EXCEPT !.next[w.tmp] = p.free,
                   !.free = blocks,
                   !.count = p.count - w.n - 1]
    ELSE p

(* ----------------------------- helpers -------------------------------- *)

\* memcpy to the start of the block whatever the offset.
MemCpy_nooff(k, off, src) ==
    [i \in 1..KEYBLOCK_LEN |-> IF i <= Len(src) THEN src[i] ELSE k[i]]

\* memcpy(&k[off], src, Len(src)).
MemCpy(k, off, src) ==
    [i \in 1..KEYBLOCK_LEN |->
        IF i > off /\ i <= off + Len(src) THEN src[i - off] ELSE k[i]]

\* The blocks reached from b by following next, in order.
RECURSIVE Reach(_, _)
Reach(nx, b) == IF b = NULL THEN <<>> ELSE <<b>> \o Reach(nx, nx[b])

Range(s) == {s[i] : i \in 1..Len(s)}

(* -------------------------- chain operations -------------------------- *)

\* read_write leaving the last byte it delivered in the descriptor.
read_write_read_keep(st, blen) ==
    IF Len(st) >= blen
    THEN [ok |-> TRUE, got |-> SubSeq(st, 1, blen), rest |-> SubSeq(st, blen, Len(st))]
    ELSE [ok |-> FALSE, got |-> st, rest |-> <<>>]

\* read_write(fd, buf, blen, RW_READ) on a descriptor holding the bytes st:
\* all blen bytes or failure; a short read has consumed what there was.
read_write_read(st, blen) ==
    IF Len(st) >= blen
    THEN [ok |-> TRUE, got |-> SubSeq(st, 1, blen), rest |-> SubSeq(st, blen + 1, Len(st))]
    ELSE [ok |-> FALSE, got |-> st, rest |-> <<>>]

\* The do-while loop of blockdata_alloc_real.  ret is the chain built so far,
\* prev the block whose next field *prev is (NULL: prev = &ret), idx the
\* number of blocks appended.  Result: the pool, the chain head (NULL on
\* failure), the descriptor's remaining bytes, and which failure happened.
RECURSIVE alloc_loop(_, _, _, _, _, _, _, _)
alloc_loop(p, ret, prev, data, len, st, ok, idx) ==
    LET nb == new_block(p, ok) IN
    IF nb.block = NULL
    THEN \* failed to alloc, free partial chain
         [pool |-> blockdata_free(nb.pool, ret), ret |-> NULL, stream |-> st,
          err |-> "nomem", idx |-> idx]
    ELSE
      LET block == nb.block
          blen == IF len > KEYBLOCK_LEN THEN KEYBLOCK_LEN ELSE len
          rd == read_write_read(st, blen)
          src == IF data.isnull THEN rd.got ELSE SubSeq(data.buf, 1, blen)
          p1 == IF blen > 0
                THEN [nb.pool EXCEPT !.key[block] = MemCpy(@, 0, src)]
                ELSE nb.pool
      IN
      IF blen > 0 /\ data.isnull /\ ~rd.ok
      THEN \* failed read free partial chain
           [pool |-> blockdata_free(p1, ret), ret |-> NULL, stream |-> rd.rest,
            err |-> "shortread", idx |-> idx]
      ELSE
        LET st1 == IF blen > 0 /\ data.isnull THEN rd.rest ELSE st
            data1 == IF data.isnull THEN data
                     ELSE DataPtr(SubSeq(data.buf, blen + 1, Len(data.buf)))
            \* *prev = block; prev = &block->next
            ret1 == IF prev = NULL THEN block ELSE ret
            p2 == IF prev = NULL THEN p1 ELSE [p1 EXCEPT !.next[prev] = block]
        IN IF len - blen # 0
           THEN alloc_loop(p2, ret1, block, data1, len - blen, st1, ok, idx + 1)
           ELSE [pool |-> p2, ret |-> ret1, stream |-> st1, err |-> "ok",
                 idx |-> idx + 1]

\* blockdata_alloc_real(fd, data, len); st is what the descriptor fd holds.
blockdata_alloc_real(p, st, data, len, ok) ==
    alloc_loop(p, NULL, NULL, data, len, st, ok, 0)

\* blockdata_alloc(data, len).
blockdata_alloc(p, data, len, ok) == blockdata_alloc_real(p, <<>>, data, len, ok)

\* blockdata_read(fd, len).
blockdata_read(p, st, len, ok) == blockdata_alloc_real(p, st, NullData, len, ok)

\* for (b = block; oldlen > KEYBLOCK_LEN && b; b = b->next, oldlen -= KEYBLOCK_LEN);
RECURSIVE expand_find(_, _, _)
expand_find(nx, b, oldlen) ==
    IF oldlen > KEYBLOCK_LEN /\ b # NULL
    THEN expand_find(nx, nx[b], oldlen - KEYBLOCK_LEN)
    ELSE [b |-> b, oldlen |-> oldlen]

\* The while (1) loop of blockdata_expand.  b is NULL here when the chain
\* has exactly one block fewer than oldlen needs: memcpy(&b->key[oldlen], ...)
\* and b->next = new then go through a null pointer, which is undefined.
\* trap chooses between the two outcomes a build produces: the access
\* faults and the process dies where it stands (crashed), or the store goes
\* to writable low memory, changes nothing of the pool and the loop carries
\* on.  fault records that a null pointer was dereferenced; err names the
\* way the call ended.
RECURSIVE expand_loop(_, _, _, _, _, _, _, _, _)
expand_loop(p, block, b, oldlen, data, newlen, ok, trap, fault) ==
    LET blocksize == KEYBLOCK_LEN - oldlen
        size == IF newlen <= blocksize THEN newlen ELSE blocksize
        nullcpy == size # 0 /\ b = NULL
    IN
    IF nullcpy /\ trap
    THEN [pool |-> p, ret |-> 0, err |-> "fault", fault |-> TRUE, crashed |-> TRUE]
    ELSE
      LET p1 == IF size # 0 /\ b # NULL
                THEN [p EXCEPT !.key[b] = MemCpy(@, oldlen, SubSeq(data, 1, size))]
                ELSE p
          data1 == SubSeq(data, size + 1, Len(data))
          newlen1 == newlen - size
          fault1 == fault \/ nullcpy
      IN
      IF newlen1 = 0
      THEN [pool |-> p1, ret |-> 1, err |-> "ok", fault |-> fault1, crashed |-> FALSE]
      ELSE
        LET nb == new_block(p1, ok) IN
        IF nb.block # NULL
        THEN IF b = NULL
             THEN \* b->next = new through the null pointer
                  IF trap
                  THEN [pool |-> nb.pool, ret |-> 0, err |-> "fault", fault |-> TRUE,
                        crashed |-> TRUE]
                  ELSE expand_loop(nb.pool, block, nb.block, 0, data1, newlen1,
                                   ok, trap, TRUE)
             ELSE expand_loop([nb.pool EXCEPT !.next[b] = nb.block], block,
                              nb.block, 0, data1, newlen1, ok, trap, fault1)
        ELSE \* failed to alloc, free partial chain
             [pool |-> blockdata_free(nb.pool, block), ret |-> 0, err |-> "nomem",
              fault |-> fault1, crashed |-> FALSE]

\* blockdata_expand(block, oldlen, data, newlen).
blockdata_expand(p, block, oldlen, data, newlen, ok, trap) ==
    LET f == expand_find(p.next, block, oldlen) IN
    IF f.oldlen > KEYBLOCK_LEN
    THEN \* chain to short for length, something is broken
         [pool |-> blockdata_free(p, block), ret |-> 0, err |-> "short",
          fault |-> FALSE, crashed |-> FALSE]
    ELSE expand_loop(p, block, f.b, f.oldlen, data, newlen, ok, trap, FALSE)

\* The copy loop without d += blen.
RECURSIVE retrieve_loop_nod(_, _, _, _, _)
retrieve_loop_nod(p, d, off, b, len) ==
    IF len > 0 /\ b # NULL
    THEN LET blen == IF len > KEYBLOCK_LEN THEN KEYBLOCK_LEN ELSE len
             d1 == [i \in 1..Len(d) |->
                       IF i > off /\ i <= off + blen THEN p.key[b][i - off] ELSE d[i]]
         IN retrieve_loop_nod(p, d1, off, p.next[b], len - blen)
    ELSE d

\* The copy loop clearing what is left of the destination when the chain
\* ends before len bytes are copied.
RECURSIVE retrieve_loop_pad(_, _, _, _, _)
retrieve_loop_pad(p, d, off, b, len) ==
    IF len > 0 /\ b # NULL
    THEN LET blen == IF len > KEYBLOCK_LEN THEN KEYBLOCK_LEN ELSE len
             d1 == [i \in 1..Len(d) |->
                       IF i > off /\ i <= off + blen THEN p.key[b][i - off] ELSE d[i]]
         IN retrieve_loop_pad(p, d1, off + blen, p.next[b], len - blen)
    ELSE [i \in 1..Len(d) |-> IF i > off THEN Indet ELSE d[i]]

\* The copy loop of blockdata_retrieve: d is the destination so far filled
\* from offset off.
RECURSIVE retrieve_loop(_, _, _, _, _)
retrieve_loop(p, d, off, b, len) ==
    IF len > 0 /\ b # NULL
    THEN LET blen == IF len > KEYBLOCK_LEN THEN KEYBLOCK_LEN ELSE len
             d1 == [i \in 1..Len(d) |->
                       IF i > off /\ i <= off + blen THEN p.key[b][i - off] ELSE d[i]]
         IN retrieve_loop(p, d1, off + blen, p.next[b], len - blen)
    ELSE d

\* blockdata_retrieve(block, len, data).  data is the caller's buffer or the
\* null pointer; sb and sl are the static buff and buff_len; mok is
\* whine_malloc's answer.  Result: the pointer returned (isnull on failure)
\* with the bytes it points to, and the statics.
blockdata_retrieve(p, block, len, data, sb, sl, mok) ==
    IF data.isnull /\ len > sl /\ ~mok
    THEN [ret |-> NullData, buff |-> sb, buff_len |-> sl, malloced |-> FALSE]
    ELSE
      LET grown == data.isnull /\ len > sl
          sb1 == IF grown THEN DataPtr([i \in 1..len |-> Indet]) ELSE sb
          dst == IF data.isnull THEN sb1 ELSE data
          out == IF dst.isnull THEN dst
                 ELSE DataPtr(retrieve_loop(p, dst.buf, 0, block, len))
      IN [ret |-> out,
          buff |-> IF data.isnull THEN out ELSE sb,
          buff_len |-> sl,
          malloced |-> grown]

\* blockdata_write(block, len, fd): the bytes that reach the descriptor.
\* wfail is the index of the one block whose read_write(RW_WRITE) fails and
\* writes nothing (-1: none fails); the loop ignores the result.
RECURSIVE blockdata_write(_, _, _, _, _)
blockdata_write(p, block, len, wfail, idx) ==
    IF len > 0 /\ block # NULL
    THEN LET blen == IF len > KEYBLOCK_LEN THEN KEYBLOCK_LEN ELSE len
             sent == IF idx = wfail THEN <<>> ELSE SubSeq(p.key[block], 1, blen)
         IN sent \o blockdata_write(p, p.next[block], len - blen, wfail, idx + 1)
    ELSE <<>>

(* ------------------------------ callers ------------------------------- *)

\* What a caller's buffer holds, in every byte, before blockdata_retrieve.
Prior == 3

\* The byte sequences the callers store: the first n bytes of one of two
\* words over Byte, chosen so that no two blocks of a blob hold the same
\* bytes and the two words differ at every offset.
Word(s) == IF s = 1 THEN <<1, 2, 2, 1, 1, 1, 2, 1>> ELSE <<2, 1, 1, 2, 2, 2, 1, 2>>
Blob(s, n) == SubSeq(Word(s), 1, n)

AllocData == {Blob(s, n) : s \in {1, 2}, n \in 0..MaxLen}
ExpandData == {Blob(2, n) : n \in 0..MaxLen}

Handles == 1..MaxChains

\* A handle slot: the chain head (NULL: the slot is empty), the logical
\* length the caller tracks, and, for the properties only, the bytes the
\* caller stored, whether the chain went through blockdata_expand and the
\* length it had before the latest one.
NoChain == [head |-> NULL, len |-> 0, data |-> <<>>, grown |-> FALSE, alen |-> 0]

Live == {h \in Handles : chains[h].head # NULL}

\* The blocks of the chain in slot h, in order.
ChainOf(h) == Reach(next, chains[h].head)

\* The free list, in order.
FreeList == Reach(next, keyblock_free)

\* The record of an operation; every field not set by the operation is as here.
\* pre is the state the operation started in: blockdata_count, the blocks on
\* the free list, the number of blocks the heap held, the blocks of the
\* chain operated on, the bytes in the descriptor, the free list in order,
\* blockdata_alloced, blockdata_hwm, the capacity of the static buffer, and
\* the number of blocks the operation before released if it was a
\* blockdata_free.  calls and stray are the whine_malloc calls the operation
\* made in new_block, and those made with a block on the free list.
NoPre == [count |-> 0, free |-> {}, nblocks |-> 0, chain |-> <<>>, stream |-> <<>>,
          flist |-> <<>>, alloced |-> 0, hwm |-> 0, cap |-> 0, freed |-> 0]
NoOp == [op |-> "init", h |-> 0, ret |-> 0, err |-> "ok", idx |-> 0, len |-> 0,
         oldlen |-> 0, out |-> <<>>, scratch |-> FALSE, malloced |-> FALSE,
         fault |-> FALSE, crashed |-> FALSE, calls |-> 0, stray |-> 0,
         pre |-> NoPre]

Pre(h) == [count |-> blockdata_count, free |-> Range(FreeList),
           nblocks |-> Len(next),
           chain |-> IF h \in Live THEN ChainOf(h) ELSE <<>>,
           stream |-> stream,
           flist |-> FreeList,
           alloced |-> blockdata_alloced,
           hwm |-> blockdata_hwm,
           cap |-> Len(buff.buf),
           freed |-> IF last.op = "free" THEN Len(last.pre.chain) ELSE 0]

\* Nothing runs after the process died or its behaviour became undefined;
\* a run has at most MaxOps operations.
Running == ~last.crashed /\ ~last.fault /\ nops < MaxOps

SetPool(p) ==
    /\ keyblock_free' = p.free
    /\ blockdata_count' = p.count
    /\ nops' = nops + 1
    /\ peak' = p.peak
    /\ blockdata_hwm' = p.hwm
    /\ blockdata_alloced' = p.alloced
    /\ next' = p.next
    /\ key' = p.key

PoolUnchanged ==
    /\ nops' = nops + 1
    /\ UNCHANGED <<keyblock_free, blockdata_count, blockdata_hwm, blockdata_alloced,
                   next, key, peak>>

Init ==
    \E dnssec \in BOOLEAN, cachesize \in 1..MaxCache, ok \in BOOLEAN :
        LET p == blockdata_init(dnssec, cachesize, ok) IN
        /\ keyblock_free = p.free
        /\ blockdata_count = p.count
        /\ blockdata_hwm = p.hwm
        /\ blockdata_alloced = p.alloced
        /\ next = p.next
        /\ key = p.key
        /\ chains = [h \in Handles |-> NoChain]
        /\ stream = <<>>
        /\ buff = NullData
        /\ buff_len = 0
        /\ last = NoOp
        /\ nops = 0
        /\ peak = p.peak

\* The callers keep a new chain in the first empty slot.
FirstEmpty == CHOOSE h \in Handles \ Live : \A g \in Handles \ Live : h <= g

\* blockdata_alloc(data, len) from a buffer of len bytes, or
\* blockdata_alloc(NULL, 0).
Alloc ==
    /\ Running
    /\ Live # Handles
    /\ \E data \in {DataPtr(d) : d \in AllocData} \cup {NullData}, ok \in BOOLEAN :
        LET len == Len(data.buf)
            h == FirstEmpty
            r == blockdata_alloc(Pool, data, len, ok)
        IN /\ SetPool(r.pool)
           /\ chains' = IF r.ret # NULL
                        THEN [chains EXCEPT ![h] = [head |-> r.ret, len |-> len,
                                                    data |-> data.buf, grown |-> FALSE,
                                                    alen |-> 0]]
                        ELSE chains
           /\ last' = [NoOp EXCEPT !.op = "alloc", !.h = h, !.ret = r.ret,
                                   !.err = r.err, !.idx = r.idx, !.len = len,
                                   !.calls = r.pool.calls, !.stray = r.pool.stray,
                                   !.pre = Pre(0)]
    /\ UNCHANGED <<stream, buff, buff_len>>

\* blockdata_read(fd, len).
ReadIn ==
    /\ Running
    /\ Live # Handles
    /\ \E len \in 0..MaxLen, ok \in BOOLEAN :
        LET h == FirstEmpty
            r == blockdata_read(Pool, stream, len, ok)
        IN /\ SetPool(r.pool)
           /\ stream' = r.stream
           /\ chains' = IF r.ret # NULL
                        THEN [chains EXCEPT ![h] = [head |-> r.ret, len |-> len,
                                                    data |-> SubSeq(stream, 1, len),
                                                    grown |-> FALSE, alen |-> 0]]
                        ELSE chains
           /\ last' = [NoOp EXCEPT !.op = "read", !.h = h, !.ret = r.ret,
                                   !.err = r.err, !.idx = r.idx, !.len = len,
                                   !.calls = r.pool.calls, !.stray = r.pool.stray,
                                   !.pre = Pre(0)]
    /\ UNCHANGED <<buff, buff_len>>

\* The old lengths a caller passes to blockdata_expand for the chain in slot
\* h: the length it tracks, or one that needs more than one block beyond
\* the chain's end.
OldLens(h) ==
    {chains[h].len} \cup
    {Len(ChainOf(h)) * KEYBLOCK_LEN + KEYBLOCK_LEN + 1}

\* The step of blockdata_expand(chains[h].head, oldlen, data, newlen).  A
\* failed expand has released the chain: the caller drops the handle.
ExpandStep(h, oldlen, data, ok, trap) ==
    LET newlen == Len(data)
        r == blockdata_expand(Pool, chains[h].head, oldlen, data, newlen, ok, trap)
    IN /\ SetPool(r.pool)
       /\ chains' = IF r.ret = 1
                    THEN [chains EXCEPT ![h].len = oldlen + newlen,
                                        ![h].data = @ \o data,
                                        ![h].grown = TRUE,
                                        ![h].alen = oldlen]
                    ELSE [chains EXCEPT ![h] = NoChain]
       /\ last' = [NoOp EXCEPT !.op = "expand", !.h = h, !.ret = r.ret,
                               !.err = r.err, !.len = newlen, !.oldlen = oldlen,
                               !.fault = r.fault, !.crashed = r.crashed,
                               !.calls = r.pool.calls, !.stray = r.pool.stray,
                               !.pre = Pre(h)]
       /\ UNCHANGED <<stream, buff, buff_len>>

Expand ==
    /\ Running
    /\ \E h \in Live, data \in ExpandData, ok \in BOOLEAN :
         \E oldlen \in OldLens(h) :
            /\ oldlen = chains[h].len => oldlen + Len(data) <= MaxLen
            /\ ExpandStep(h, oldlen, data, ok, TRUE)

\* blockdata_expand with an old length that needs exactly one block more
\* than the chain has, and data to add.
ExpandShort ==
    /\ Running
    /\ \E h \in Live, data \in ExpandData \ {<<>>}, ok \in BOOLEAN, trap \in BOOLEAN :
         \E oldlen \in (Len(ChainOf(h)) * KEYBLOCK_LEN + 1) ..
                       (Len(ChainOf(h)) * KEYBLOCK_LEN + KEYBLOCK_LEN) :
            ExpandStep(h, oldlen, data, ok, trap)

\* blockdata_free(chains[h].head), or blockdata_free(NULL) for h = 0.
Free ==
    /\ Running
    /\ \E h \in Live \cup {0} :
        LET blocks == IF h = 0 THEN NULL ELSE chains[h].head IN
        /\ SetPool(blockdata_free(Pool, blocks))
        /\ chains' = IF h = 0 THEN chains ELSE [chains EXCEPT ![h] = NoChain]
        /\ last' = [NoOp EXCEPT !.op = "free", !.h = h, !.pre = Pre(h)]
    /\ UNCHANGED <<stream, buff, buff_len>>

\* The step of blockdata_retrieve(chains[h].head, len, data) into a caller's
\* buffer of len bytes or, with scratch, with data NULL into the static buffer.
RetrieveStep(scratch) ==
    /\ Running
    /\ \E h \in Live, mok \in BOOLEAN :
         \E len \in {chains[h].len, Len(ChainOf(h)) * KEYBLOCK_LEN + 1} :
            LET data == IF scratch THEN NullData
                        ELSE DataPtr([i \in 1..len |-> Prior])
                r == blockdata_retrieve(Pool, chains[h].head, len, data,
                                        buff, buff_len, mok)
            IN /\ buff' = r.buff
               /\ buff_len' = r.buff_len
               /\ last' = [NoOp EXCEPT !.op = "retrieve", !.h = h,
                                       !.ret = IF r.ret.isnull THEN 0 ELSE 1,
                                       !.len = len, !.out = r.ret.buf,
                                       !.scratch = scratch,
                                       !.malloced = r.malloced,
                                       !.pre = Pre(h)]
    /\ PoolUnchanged
    /\ UNCHANGED <<chains, stream>>

Retrieve == RetrieveStep(FALSE)
RetrieveScratch == RetrieveStep(TRUE)

\* blockdata_write(chains[h].head, chains[h].len, fd).
WriteOut ==
    /\ Running
    /\ \E h \in Live, wfail \in -1..0 :
        LET len == chains[h].len
            sent == blockdata_write(Pool, chains[h].head, len, wfail, 0)
        IN /\ Len(stream) + len <= MaxStream
           /\ stream' = stream \o sent
           /\ last' = [NoOp EXCEPT !.op = "write", !.h = h, !.len = len,
                                   !.out = sent,
                                   !.err = IF Len(sent) = len THEN "ok" ELSE "failed",
                                   !.pre = Pre(h)]
    /\ PoolUnchanged
    /\ UNCHANGED <<chains, buff, buff_len>>

\* The program with well-formed calls.
Next == Alloc \/ ReadIn \/ Expand \/ Free \/ Retrieve \/ WriteOut
Spec == Init /\ [][Next]_vars

\* Buffers only: no descriptor is read.
NextMem == Alloc \/ Expand \/ Free \/ Retrieve
SpecMem == Init /\ [][NextMem]_vars

\* With the calls to blockdata_expand whose old length overshoots the chain
\* by less than a block.
NextShort == Alloc \/ Expand \/ ExpandShort \/ Free \/ Retrieve
SpecShort == Init /\ [][NextShort]_vars

\* Callers that retrieve into the static buffer as well.
NextScratch == Alloc \/ Free \/ Retrieve \/ RetrieveScratch
SpecScratch == Init /\ [][NextScratch]_vars

(* ------------------------------ properties ---------------------------- *)

RECURSIVE SumLen(_)
SumLen(H) ==
    IF H = {} THEN 0
    ELSE LET h == CHOOSE x \in H : TRUE IN Len(ChainOf(h)) + SumLen(H \ {h})

FreeSet == Range(FreeList)
ChainSet(h) == Range(ChainOf(h))

\* The blocks the heap gained during the last operation.
Fresh == (last.pre.nblocks + 1) .. Len(next)

\* The bytes blockdata_retrieve copies out of the chain in slot h into a
\* buffer of len bytes.
Retrieved(h, len) ==
    retrieve_loop(Pool, [i \in 1..len |-> Indet], 0, chains[h].head, len)

\* The number of blocks blockdata_alloc builds for the bytes s from a pool
\* that has the blocks.
InMemBlocks(s) ==
    LET r == blockdata_alloc(blockdata_init(TRUE, MaxBlocks, TRUE), DataPtr(s),
                             Len(s), TRUE)
    IN Len(Reach(r.pool.next, r.ret))

\* C1: with buffers as the only source, chains freed at most once and not
\* used after a free or a failed expand, blockdata_count is the number of
\* blocks in the chains not yet freed, and is at most blockdata_alloced.
C1_Accounting ==
    /\ blockdata_count = SumLen(Live)
    /\ blockdata_count <= blockdata_alloced

C1_Witness ==
    /\ last.op = "free" /\ last.h # 0
    /\ \E h \in Live : chains[h].grown /\ Len(ChainOf(h)) >= 2

\* C2: between operations, every block obtained from the bulk-memory source
\* is on the free list or in exactly one live chain, and never in two of
\* these.
C2_Partition ==
    /\ \A b \in 1..Len(next) :
          Cardinality({h \in Live : b \in ChainSet(h)})
           + (IF b \in FreeSet THEN 1 ELSE 0) = 1

\* C3: when blockdata_read fails on a short read, every block the call took
\* is back on the free list: blockdata_count is what it was before the call
\* and the free list holds the blocks it held plus those new from the source.
C3_ShortReadUnwound ==
    (last.op = "read" /\ last.err = "shortread") =>
        /\ last.ret = NULL
        /\ blockdata_count = last.pre.count
        /\ FreeSet = last.pre.free \cup Fresh

\* C4: when new_block fails partway through an allocation, the call returns
\* failure, blockdata_count is what it was before the call and every block
\* the call took is back on the free list.
C4_AllocUnwound ==
    (last.op \in {"alloc", "read"} /\ last.err = "nomem") =>
        /\ last.ret = NULL
        /\ blockdata_count = last.pre.count
        /\ FreeSet = last.pre.free \cup Fresh

C4_Witness ==
    /\ last.op = "alloc" /\ last.err = "nomem" /\ last.idx >= 1
    /\ Fresh # {}

\* C5, as claimed: when new_block fails partway through blockdata_expand on
\* a chain consistent with the old length, blockdata_count is what it was
\* before the call.
C5_CountRestored ==
    (last.op = "expand" /\ last.err = "nomem"
        /\ last.oldlen <= Len(last.pre.chain) * KEYBLOCK_LEN) =>
        blockdata_count = last.pre.count

\* C5, amended: when new_block fails partway through blockdata_expand on a
\* chain consistent with the old length, blockdata_count is what it was
\* before the call less the number of blocks the chain had then.
C5_CountLessChain ==
    (last.op = "expand" /\ last.err = "nomem"
        /\ last.oldlen <= Len(last.pre.chain) * KEYBLOCK_LEN) =>
        blockdata_count = last.pre.count - Len(last.pre.chain)

C5_Witness ==
    /\ last.op = "expand" /\ last.err = "nomem"
    /\ last.oldlen <= Len(last.pre.chain) * KEYBLOCK_LEN
    /\ Len(last.pre.chain) >= 2
    /\ Live # {}

\* C6: when new_block fails in blockdata_expand, the call returns 0 and the
\* whole chain is released: the blocks it had before the call and the blocks
\* the call appended are on the free list, and blockdata_count has gone
\* down by the number of blocks the chain had.
C6_ExpandReleasesChain ==
    (last.op = "expand" /\ last.err = "nomem") =>
        /\ last.ret = 0
        /\ chains[last.h].head = NULL
        /\ Range(last.pre.chain) \subseteq FreeSet
        /\ FreeSet = last.pre.free \cup Range(last.pre.chain) \cup Fresh
        /\ blockdata_count = last.pre.count - Len(last.pre.chain)
        /\ keyblock_free = last.pre.chain[1]

\* A failure after the call had appended the blocks of the free list to a
\* chain that held bytes.
C6_Witness ==
    /\ last.op = "expand" /\ last.err = "nomem"
    /\ last.pre.free # {}
    /\ last.oldlen > 0

\* C7: blockdata_expand on a chain of n blocks with an old length above
\* n * KEYBLOCK_LEN and data to add releases the whole chain and returns 0,
\* and neither writes through nor follows a null link.
C7_ShortChainReleased ==
    (last.op = "expand" /\ last.len >= 1
        /\ last.oldlen > Len(last.pre.chain) * KEYBLOCK_LEN) =>
        /\ ~last.fault
        /\ last.ret = 0
        /\ Range(last.pre.chain) \subseteq FreeSet

\* C8: retrieving, into a caller's buffer, the N bytes of a chain built by an
\* allocation of the N bytes S gives S.
C8_RoundTrip ==
    (last.op = "retrieve" /\ ~last.scratch /\ ~chains[last.h].grown
        /\ last.len = chains[last.h].len) =>
        last.out = chains[last.h].data

C8_Witness ==
    /\ last.op = "retrieve" /\ ~last.scratch /\ ~chains[last.h].grown
    /\ last.len = chains[last.h].len
    /\ last.len > KEYBLOCK_LEN /\ last.len % KEYBLOCK_LEN # 0
    /\ last.out = Blob(1, last.len)

\* C9: after a chain allocated from A has been expanded by C, retrieving
\* Len(A) + Len(C) bytes gives A followed by C.
C9_ExpandComposition ==
    (last.op = "retrieve" /\ ~last.scratch /\ chains[last.h].grown
        /\ last.len = chains[last.h].len) =>
        /\ last.out = chains[last.h].data
        /\ Len(ChainOf(last.h)) * KEYBLOCK_LEN >= last.len

\* The last block was full when the chain was expanded.
C9_Witness ==
    /\ last.op = "retrieve" /\ ~last.scratch /\ chains[last.h].grown
    /\ last.len = chains[last.h].len
    /\ chains[last.h].alen = KEYBLOCK_LEN
    /\ last.len > chains[last.h].alen
    /\ last.out = Blob(1, KEYBLOCK_LEN) \o Blob(2, last.len - KEYBLOCK_LEN)

\* C10: blockdata_write of a chain's N bytes, every write succeeding, sends
\* exactly those bytes in order; a successful blockdata_read of N bytes
\* builds a chain that retrieves as the N bytes taken from the descriptor
\* and has as many blocks as a chain allocated from them in memory.
C10_StreamRoundTrip ==
    /\ (last.op = "write" /\ last.err = "ok") =>
          /\ last.out = chains[last.h].data
          /\ stream = last.pre.stream \o chains[last.h].data
    /\ (last.op = "read" /\ last.ret # NULL) =>
          /\ Retrieved(last.h, last.len) = SubSeq(last.pre.stream, 1, last.len)
          /\ stream = SubSeq(last.pre.stream, last.len + 1, Len(last.pre.stream))
          /\ Len(ChainOf(last.h)) = InMemBlocks(SubSeq(last.pre.stream, 1, last.len))

\* A chain read back while the chain that was written is still live.
C10_Witness ==
    /\ last.op = "read" /\ last.ret # NULL /\ last.len > KEYBLOCK_LEN
    /\ \E g \in Live \ {last.h} :
          /\ chains[g].data = chains[last.h].data
          /\ Retrieved(g, last.len) = Retrieved(last.h, last.len)

\* The number of blocks a chain of len bytes has: one for every KEYBLOCK_LEN
\* bytes or part of them, and one block when len is 0.
NBlocks(len) ==
    IF len = 0 THEN 1 ELSE (len + KEYBLOCK_LEN - 1) \div KEYBLOCK_LEN

\* C11: a blockdata_alloc that follows the blockdata_free of a chain of k
\* blocks and needs at most k blocks succeeds without one call of
\* whine_malloc and leaves blockdata_alloced as it was (so does a
\* blockdata_read, whether or not its reads succeed); and no operation calls
\* whine_malloc from new_block while the free list holds a block.
C11_ReuseBeforeGrow ==
    /\ last.stray = 0
    /\ (last.op \in {"alloc", "read"} /\ last.pre.freed >= NBlocks(last.len))
          => /\ last.calls = 0
             /\ blockdata_alloced = last.pre.alloced
             /\ last.op = "alloc" => last.ret # NULL

C11_Witness ==
    /\ last.op = "alloc" /\ last.ret # NULL
    /\ NBlocks(last.len) >= 2
    /\ last.pre.freed >= NBlocks(last.len)

\* The last operation was one that builds or extends a chain, and it failed.
Failed ==
    \/ last.op \in {"alloc", "read"} /\ last.ret = NULL
    \/ last.op = "expand" /\ last.err # "ok"

\* C12 as stated: blockdata_hwm is the largest value blockdata_count has
\* held since blockdata_init, and blockdata_alloced never decreases: free
\* and failed operations leave it as it was.
C12_FailedLeavesAlloced ==
    /\ blockdata_hwm = peak
    /\ blockdata_alloced >= last.pre.alloced
    /\ (last.op = "free" \/ Failed) => blockdata_alloced = last.pre.alloced

\* C12, amended: blockdata_hwm is the largest value blockdata_count has held
\* since blockdata_init, and blockdata_alloced never decreases: free leaves
\* it as it was, and so does every operation that made no successful call of
\* whine_malloc, while a failed operation may have grown the pool first.
C12_HighWaterAndGrowth ==
    /\ blockdata_hwm = peak
    /\ blockdata_alloced >= last.pre.alloced
    /\ last.op = "free" => blockdata_alloced = last.pre.alloced
    /\ Fresh = {} => blockdata_alloced = last.pre.alloced
    /\ blockdata_alloced = last.pre.alloced + Cardinality(Fresh)

C12_Witness ==
    /\ Failed /\ last.op = "alloc"
    /\ blockdata_alloced > last.pre.alloced
    /\ blockdata_hwm > last.pre.hwm
    /\ blockdata_hwm > blockdata_count

\* The bytes held by the blocks of the chain c, block after block.
RECURSIVE Stored(_)
Stored(c) == IF c = <<>> THEN <<>> ELSE key[Head(c)] \o Stored(Tail(c))

\* C13: blockdata_retrieve into a caller's buffer with len greater than the
\* n * KEYBLOCK_LEN bytes the chain's n blocks hold copies those bytes to the
\* front of the buffer, leaves the bytes from offset n * KEYBLOCK_LEN on as
\* they were, returns (the walk stops at the null link), and leaves the free
\* list, the counters and the chain as they were.
C13_RetrieveStopsAtChainEnd ==
    (/\ last.op = "retrieve" /\ ~last.scratch
     /\ last.len > Len(last.pre.chain) * KEYBLOCK_LEN)
      => LET held == Len(last.pre.chain) * KEYBLOCK_LEN IN
         /\ last.ret # NULL
         /\ Len(last.out) = last.len
         /\ SubSeq(last.out, 1, held) = Stored(last.pre.chain)
         /\ \A i \in (held + 1)..last.len : last.out[i] = Prior
         /\ ChainOf(last.h) = last.pre.chain
         /\ FreeList = last.pre.flist
         /\ blockdata_count = last.pre.count
         /\ blockdata_hwm = last.pre.hwm
         /\ blockdata_alloced = last.pre.alloced

C13_Witness ==
    /\ last.op = "retrieve" /\ ~last.scratch
    /\ Len(last.pre.chain) >= 2
    /\ last.len > Len(last.pre.chain) * KEYBLOCK_LEN
    /\ last.out[last.len] = Prior
    /\ \A i \in 1..(last.len - 1) : last.out[i] \in Byte

\* C14: blockdata_retrieve with a null data pointer replaces the static
\* buffer only when its capacity is below len, and then by one of exactly
\* len bytes; a call with len within the capacity keeps the buffer and does
\* not call whine_malloc; and buff_len is the capacity of the buffer.
C14_ScratchReuse ==
    /\ buff_len = Len(buff.buf)
    /\ (last.op = "retrieve" /\ last.scratch) =>
          /\ last.malloced => (last.len > last.pre.cap /\ Len(buff.buf) = last.len)
          /\ last.len <= last.pre.cap =>
                (~last.malloced /\ Len(buff.buf) = last.pre.cap)

\* C15: a successful blockdata_alloc or blockdata_read of len bytes returns
\* the head of a chain of NBlocks(len) blocks ending in a null link; a
\* successful blockdata_expand of a chain that has the blocks of its old
\* length leaves a chain of NBlocks(oldlen + newlen) blocks with the same
\* head, whose first blocks are the chain's blocks from before the call in
\* their order.
C15_ChainShape ==
    /\ (last.op \in {"alloc", "read"} /\ last.ret # NULL) =>
          /\ chains[last.h].head = last.ret
          /\ Len(ChainOf(last.h)) = NBlocks(last.len)
          /\ next[ChainOf(last.h)[NBlocks(last.len)]] = NULL
    /\ (/\ last.op = "expand" /\ last.ret = 1
        /\ Len(last.pre.chain) = NBlocks(last.oldlen)) =>
          LET c == ChainOf(last.h) IN
          /\ Len(c) = NBlocks(last.oldlen + last.len)
          /\ next[c[Len(c)]] = NULL
          /\ chains[last.h].head = Head(last.pre.chain)
          /\ SubSeq(c, 1, Len(last.pre.chain)) = last.pre.chain

C15_Witness ==
    /\ last.op = "expand" /\ last.ret = 1
    /\ Len(last.pre.chain) = NBlocks(last.oldlen)
    /\ Len(last.pre.chain) >= 2
    /\ Len(ChainOf(last.h)) > Len(last.pre.chain)

\* The free list new_block takes its block from in the last operation: the
\* one the operation found, or the batch add_blocks delivered when it found
\* none.
Supply ==
    IF last.pre.flist # <<>> THEN last.pre.flist
    ELSE [i \in 1..Cardinality(Fresh) |-> last.pre.nblocks + i]

\* C16: when whine_malloc fails in add_blocks, keyblock_free and the three
\* counters are as before (seen where the first new_block of an operation
\* finds the free list empty); new_block fails exactly when the free list is
\* empty and the add_blocks it calls fails, and otherwise returns the block
\* that headed the free list with a null link, takes that one block off the
\* list and adds one to blockdata_count (seen in the allocations of one
\* block, and in new_block applied to the pool of every reachable state).
C16_AcquireContract ==
    /\ (last.op \in {"alloc", "read"} /\ last.pre.flist = <<>> /\ Fresh = {}) =>
          /\ last.ret = NULL /\ last.err = "nomem" /\ last.calls = 1
          /\ keyblock_free = NULL
          /\ blockdata_count = last.pre.count
          /\ blockdata_hwm = last.pre.hwm
          /\ blockdata_alloced = last.pre.alloced
    /\ (last.op = "alloc" /\ NBlocks(last.len) = 1) =>
          /\ last.ret = NULL <=>
                (last.pre.flist = <<>> /\ last.calls = 1 /\ Fresh = {})
          /\ last.ret # NULL =>
                /\ last.ret = Head(Supply)
                /\ next[last.ret] = NULL
                /\ FreeList = Tail(Supply)
                /\ blockdata_count = last.pre.count + 1
    /\ \A ok \in BOOLEAN :
          LET r == new_block(Pool, ok)
              q == r.pool
          IN /\ r.block = NULL <=>
                   (keyblock_free = NULL /\ ~whine_malloc(Pool, GrowBatch, ok))
             /\ r.block = NULL =>
                   /\ q.free = NULL /\ q.count = blockdata_count
                   /\ q.hwm = blockdata_hwm /\ q.alloced = blockdata_alloced
             /\ (r.block # NULL /\ keyblock_free # NULL) =>
                   /\ r.block = keyblock_free /\ q.next[r.block] = NULL
                   /\ Reach(q.next, q.free) = Tail(FreeList)
                   /\ q.count = blockdata_count + 1
                   /\ q.calls = 0

C16_Witness ==
    /\ last.op = "alloc" /\ last.ret = NULL /\ last.idx = 0
    /\ last.pre.flist = <<>> /\ last.calls = 1
    /\ last.pre.count >= 2 /\ last.pre.alloced >= 2

\* C17: blockdata_free of a chain of k blocks takes k off blockdata_count
\* and leaves the free list as the chain's blocks in their order followed by
\* the free list from before, keyblock_free being the chain's head, with
\* blockdata_alloced and blockdata_hwm as they were; blockdata_free(NULL)
\* changes neither the free list nor a counter.
C17_FreeSplices ==
    /\ (last.op = "free" /\ last.h # 0) =>
          /\ blockdata_count = last.pre.count - Len(last.pre.chain)
          /\ FreeList = last.pre.chain \o last.pre.flist
          /\ keyblock_free = Head(last.pre.chain)
          /\ blockdata_alloced = last.pre.alloced
          /\ blockdata_hwm = last.pre.hwm
    /\ (last.op = "free" /\ last.h = 0) =>
          /\ blockdata_count = last.pre.count
          /\ FreeList = last.pre.flist
          /\ blockdata_alloced = last.pre.alloced
          /\ blockdata_hwm = last.pre.hwm

C17_Witness ==
    /\ last.op = "free" /\ last.h # 0
    /\ Len(last.pre.chain) >= 2
    /\ last.pre.flist # <<>>
    /\ blockdata_count > 0

\* Following next from b reaches the null link within fuel steps.
RECURSIVE Ends(_, _, _)
Ends(nx, b, fuel) ==
    IF b = NULL THEN TRUE
    ELSE IF fuel = 0 THEN FALSE
    ELSE Ends(nx, nx[b], fuel - 1)

\* C18: in every state reached by blockdata_init, blockdata_alloc,
\* blockdata_read, blockdata_expand and blockdata_free, with each chain
\* freed at most once and not used afterwards, the free list and every live
\* chain reach a null link without passing a block twice (within as many
\* steps as the heap has blocks), so every walk along them ends.
C18_NullTerminated ==
    /\ Ends(next, keyblock_free, Len(next))
    /\ \A h \in Live : Ends(next, chains[h].head, Len(next))
    /\ \A b \in 1..Len(next) : next[b] \in 0..Len(next) /\ next[b] # b

C18_Witness ==
    /\ last.op = "free" /\ last.h # 0
    /\ Len(last.pre.chain) >= 2
    /\ Len(FreeList) >= 3
    /\ \E h \in Live : chains[h].grown

\* C19: between operations, also after one that failed for want of memory
\* or on a short read, the blocks on the free list and blockdata_count add
\* up to blockdata_alloced.
C19_Conservation ==
    Len(FreeList) + blockdata_count = blockdata_alloced

C19_Witness ==
    /\ last.op = "read" /\ last.err = "shortread"
    /\ last.idx >= 1
    /\ blockdata_count > SumLen(Live)
    /\ FreeList # <<>>

\* C20: an operation on one chain (blockdata_alloc, blockdata_read,
\* blockdata_expand, blockdata_free, blockdata_retrieve or blockdata_write,
\* succeeding or failing) leaves every other live chain live, with the same
\* blocks in the same order, the same links and the same stored bytes.
C20_Isolation ==
    [][\A g \in Live :
         g # last'.h =>
            /\ g \in Live'
            /\ ChainOf(g)' = ChainOf(g)
            /\ \A b \in ChainSet(g) : key'[b] = key[b] /\ next'[b] = next[b]]_vars

C20_Witness ==
    /\ last.op = "expand" /\ last.ret = 1
    /\ Len(ChainOf(last.h)) > Len(last.pre.chain)
    /\ \E g \in Live \ {last.h} :
          /\ Len(ChainOf(g)) >= 2
          /\ chains[g].data = Blob(1, chains[g].len)

====
